---- MODULE Spec2Model ----
(***************************************************************************)
(* ReDNS (lib/redns.js): a caching, rotating, retrying front end to        *)
(* dns.lookup.  The model follows the JavaScript event loop: every action  *)
(* is one callback run to completion (a lookup call, a timer, an upstream  *)
(* answer, a process.nextTick delivery, a dns.lookup answer) or the        *)
(* passing of one unit of time.                                            *)
(***************************************************************************)
EXTENDS Integers, Sequences, FiniteSets, TLC

\* ---------------------------------------------------------------- bounds
MaxLookups == 3      \* lookup calls issued by the user (callback identities)
MaxRecs    == 2      \* records in one upstream answer
MaxTTL     == 1      \* largest TTL (seconds) in an upstream answer
MaxRetries == 2      \* largest value of options.retries
MaxTimeout == 1      \* largest value of options.timeout (time units)
MsPerSec   == 2      \* time units per TTL second (1000 in the code)

\* Stand-in for JavaScript's Infinity (DEFAULT_MAX_TTL)
DEFAULT_MAX_TTL == 1000000

\* Node.js >= v6.11.0: resolvers report TTLs
isLegacy == FALSE

Lookups  == 1..MaxLookups
Hosts    == {"host"}
\* 0: unspecified, 4, 6, and 5 for every unsupported family
Families == {0, 4, 5, 6}
Branches == {4, 6}

Min(a, b) == IF a < b THEN a ELSE b

RECURSIVE Pow2(_)
Pow2(n) == IF n = 0 THEN 1 ELSE 2 * Pow2(n - 1)

\* key = hostname + ':' + family + ':' + ':' + all
Key(hostname, family, all) == <<hostname, family, all>>
Keys == {Key(h, f, a) : h \in Hosts, f \in Families, a \in BOOLEAN}
NoKey == <<"", 0, FALSE>>

\* ------------------------------------------------------------ environment
\* An answer of dns.resolve4 / dns.resolve6 with { ttl: true }: the n records
\* of the host's record set of that family, which share the set's TTL
Address(family, pos) == family * 10 + pos
Answer(family, n, ttl) ==
  [p \in 1..n |-> [address |-> Address(family, p), ttl |-> ttl]]
\* Error codes of the resolver; the timer reports ETIMEOUT
ResolverErrors == {"ENODATA", "ESERVFAIL"}

VARIABLES
  zone,       \* zone[f]: how many records of family f the host has
  options,    \* this.options
  now,        \* Date.now()
  cache,      \* this.cache: key -> absent | in-flight marker | Entry
  merged,     \* the `merged` array captured by the marker of lookup i
  args,       \* key of the lookup call with callback i (NoKey: not issued)
  res,        \* res[i][f]: the _resolve call of family f started by lookup i
  par,        \* par[i]: the async.parallel state of _resolveBoth of lookup i
  ticks,      \* process.nextTick queue
  fallback,   \* fallback[i]: dnsLookup calls outstanding with callback i
  delivered,  \* callback invocations so far, in order
  crashed     \* an exception escaped a callback

vars == <<zone, options, now, cache, merged, args, res, par, ticks, fallback,
          delivered, crashed>>

Absent == [type |-> "absent", ctx |-> 0, index |-> 0, records |-> <<>>]
Marker(i) == [type |-> "marker", ctx |-> i, index |-> 0, records |-> <<>>]
\* function Entry(records) { this.index = 0; this.records = records; }
Entry(i, records) ==
  [type |-> "entry", ctx |-> i, index |-> 0, records |-> records]

\* The locals of a _resolve call; armed counts its timers that are set and
\* neither fired nor cleared, stale its attempts that timed out and whose
\* query is still to be answered
IdleResolve ==
  [state |-> "idle", attempt |-> 0, timeout |-> 0, timer |-> 0, armed |-> 0,
   stale |-> 0, began |-> 0]
NoResult == [set |-> FALSE, recs |-> <<>>]
IdlePar == [active |-> FALSE, a |-> NoResult, aaaa |-> NoResult]

\* The mutable state handed through the synchronous calls of one callback
Cur ==
  [cache |-> cache, merged |-> merged, args |-> args, res |-> res,
   par |-> par, ticks |-> ticks, fallback |-> fallback, delivered |-> delivered,
   crashed |-> crashed]

Commit(S) ==
  /\ cache' = S.cache
  /\ merged' = S.merged
  /\ args' = S.args
  /\ res' = S.res
  /\ par' = S.par
  /\ ticks' = S.ticks
  /\ fallback' = S.fallback
  /\ delivered' = S.delivered
  /\ crashed' = S.crashed

\* A callback invocation: kind "ok" (records), "err" (error), "fallback"
Ok(i, val, from) ==
  [cb |-> i, kind |-> "ok", err |-> "", val |-> val, from |-> from]
Err(i, code) ==
  [cb |-> i, kind |-> "err", err |-> code, val |-> <<>>, from |-> 0]
Fallback(i) ==
  [cb |-> i, kind |-> "fallback", err |-> "", val |-> <<>>, from |-> 0]

\* ------------------------------------------------------------- Entry.use
\* record.expiresAt > now
unexpiredLax(record, t) == record.expiresAt >= t

unexpired(record, t) == record.expiresAt > t

\* The do/while loop of Entry.prototype.use; index is 0-based as in the code
RECURSIVE Scan(_, _, _, _, _, _)
Scan(records, index, start, all, t, results) ==
  LET record == records[index + 1]
      next == (index + 1) % Len(records)
      hit == unexpired(record, t)
      results2 == IF hit THEN Append(results, record) ELSE results
  IN IF (hit /\ ~all) \/ next = start
       THEN [index |-> next, results |-> results2]
       ELSE Scan(records, next, start, all, t, results2)

\* use without rotation: every call starts at record 0
useNoRotate(entry, all, t) ==
  LET s == Scan(entry.records, 0, 0, all, t, <<>>)
  IN [ok |-> s.results # <<>>,
      entry |-> [entry EXCEPT !.index = 0],
      val |-> IF s.results = <<>> THEN <<>>
              ELSE IF all THEN s.results
              ELSE <<[address |-> s.results[1].address,
                      family |-> s.results[1].family]>>]

\* use whose single-mode call moves the cursor one position on from where it
\* started, whichever record it returns
useAdvanceOne(entry, all, t) ==
  LET start == IF all THEN 0 ELSE entry.index
      s == Scan(entry.records, start, start, all, t, <<>>)
  IN [ok |-> s.results # <<>>,
      entry |-> [entry EXCEPT !.index =
                   IF all \/ s.results = <<>> THEN s.index
                   ELSE (start + 1) % Len(entry.records)],
      val |-> IF s.results = <<>> THEN <<>>
              ELSE IF all THEN s.results
              ELSE <<[address |-> s.results[1].address,
                      family |-> s.results[1].family]>>]

\* use(all, callback): ok is the return value, val what callback receives
use(entry, all, t) ==
  LET start == IF all THEN 0 ELSE entry.index
      s == Scan(entry.records, start, start, all, t, <<>>)
  IN [ok |-> s.results # <<>>,
      entry |-> [entry EXCEPT !.index = s.index],
      val |-> IF s.results = <<>> THEN <<>>
              ELSE IF all THEN s.results
              ELSE <<[address |-> s.results[1].address,
                      family |-> s.results[1].family]>>]

\* ------------------------------------------------------------- _resolve
\* One attempt of the async.retry task: setTimeout(..., timeout) and the
\* resolver call
attempt(S, i, f, n, timeout) ==
  [S EXCEPT !.res[i][f].state = "running",
            !.res[i][f].attempt = n,
            !.res[i][f].timeout = timeout,
            !.res[i][f].timer = now + timeout,
            !.res[i][f].armed = @ + 1]

\* _resolve(hostname, family, callback): let timeout = this.options.timeout
resolve(S, i, f) ==
  attempt([S EXCEPT !.res[i][f] = [IdleResolve EXCEPT !.began = now]],
          i, f, 1, options.timeout)

\* the timeout is never raised
escalateNever(timeout) == timeout

\* timeout *= 2 when options.incrementalTimeout
escalate(timeout) == IF options.incrementalTimeout THEN timeout * 2 ELSE timeout

\* results.map(...) of onResults
mapResults(results, family) ==
  [p \in 1..Len(results) |->
     [address |-> results[p].address,
      ttl |-> IF isLegacy THEN DEFAULT_MAX_TTL ELSE results[p].ttl,
      family |-> family]]

\* ------------------------------------------------------------- onresult
\* records.map(...) of onresult: expiresAt = now + min(maxTTL, ttl) * 1000
unify(records, family) ==
  [p \in 1..Len(records) |->
     [address |-> records[p].address,
      expiresAt |-> LET ttl == Min(options.maxTTL, records[p].ttl)
                    IN IF ttl >= DEFAULT_MAX_TTL THEN DEFAULT_MAX_TTL
                       ELSE now + ttl * MsPerSec,
      family |-> IF family # 0 THEN family ELSE records[p].family]]

\* ---------------------------------------------------------------- lookup
\* The miss path with the fallback lookup called for every family
missAlsoFallsBack(S, i) ==
  LET key == S.args[i]
      S1 == [S EXCEPT !.cache[key] = Marker(i), !.merged[i] = <<>>,
                      !.fallback[i] = @ + 1]
  IN IF key[2] = 0
       THEN resolve(resolve([S1 EXCEPT !.par[i] =
                               [IdlePar EXCEPT !.active = TRUE]], i, 4), i, 6)
     ELSE IF key[2] \in Branches THEN resolve(S1, i, key[2])
     ELSE S1

\* The miss path of lookup: lines 106-154
miss(S, i) ==
  LET key == S.args[i]
      S1 == [S EXCEPT !.cache[key] = Marker(i), !.merged[i] = <<>>]
  IN IF key[2] = 0
       THEN resolve(resolve([S1 EXCEPT !.par[i] =
                               [IdlePar EXCEPT !.active = TRUE]], i, 4), i, 6)
     ELSE IF key[2] \in Branches THEN resolve(S1, i, key[2])
     ELSE [S1 EXCEPT !.fallback[i] = @ + 1]

\* lookup without merging of parallel queries (the in-flight marker is
\* ignored)
lookupUnmerged(S, i) ==
  LET key == S.args[i]
      slot == S.cache[key]
  IN IF slot.type = "entry"
       THEN LET u == use(slot, key[3], now)
            IN IF u.ok
                 THEN [S EXCEPT !.cache[key] = u.entry,
                                !.ticks = Append(@, Ok(i, u.val, slot.ctx))]
                 ELSE miss([S EXCEPT !.cache[key] = Absent], i)
     ELSE miss(S, i)

\* lookup that invokes the callback of a cache hit before it returns
lookupSync(S, i) ==
  LET key == S.args[i]
      slot == S.cache[key]
  IN IF slot.type = "marker"
       THEN [S EXCEPT !.merged[slot.ctx] = Append(@, i)]
     ELSE IF slot.type = "entry"
       THEN LET u == use(slot, key[3], now)
            IN IF u.ok
                 THEN [S EXCEPT !.cache[key] = u.entry,
                                !.delivered = Append(@, Ok(i, u.val, slot.ctx))]
                 ELSE miss([S EXCEPT !.cache[key] = Absent], i)
     ELSE miss(S, i)

\* lookup(hostname, options, callback) with callback i and key args[i]
lookup(S, i) ==
  LET key == S.args[i]
      slot == S.cache[key]
  IN IF slot.type = "marker"
       THEN [S EXCEPT !.merged[slot.ctx] = Append(@, i)]
     ELSE IF slot.type = "entry"
       THEN LET u == use(slot, key[3], now)
            IN IF u.ok
                 THEN [S EXCEPT !.cache[key] = u.entry,
                                !.ticks = Append(@, Ok(i, u.val, slot.ctx))]
                 ELSE miss([S EXCEPT !.cache[key] = Absent], i)
     ELSE miss(S, i)

\* merged.forEach(fn => fn()): each waiter re-executes its lookup
RECURSIVE runMerged(_, _)
runMerged(S, waiters) ==
  IF waiters = <<>> THEN S
  ELSE runMerged(lookup(S, Head(waiters)), Tail(waiters))

\* onresult that stores the Entry whether or not a record of it is usable
onresultStoreExpired(S, i, err, records) ==
  LET key == S.args[i] IN
  IF err # "" THEN [S EXCEPT !.delivered = Append(@, Err(i, err))]
  ELSE IF records = <<>> THEN [S EXCEPT !.crashed = TRUE]
  ELSE
    LET u == use(Entry(i, unify(records, key[2])), key[3], now)
        S1 == IF u.ok
                THEN [S EXCEPT !.ticks = Append(@, Ok(i, u.val, i)),
                               !.cache[key] = u.entry]
                ELSE [S EXCEPT !.cache[key] = u.entry]
    IN runMerged(S1, S.merged[i])

\* onresult that releases the waiters before it stores the Entry
onresultReleaseFirst(S, i, err, records) ==
  LET key == S.args[i] IN
  IF err # "" THEN [S EXCEPT !.delivered = Append(@, Err(i, err))]
  ELSE IF records = <<>> THEN [S EXCEPT !.crashed = TRUE]
  ELSE
    LET u == use(Entry(i, unify(records, key[2])), key[3], now)
        S1 == runMerged([S EXCEPT !.cache[key] = Absent], S.merged[i])
    IN IF u.ok
         THEN [S1 EXCEPT !.ticks = Append(@, Ok(i, u.val, i)),
                         !.cache[key] = u.entry]
         ELSE [S1 EXCEPT !.cache[key] = Absent, !.fallback[i] = @ + 1]

\* onresult(err, records) of the lookup with callback i
onresult(S, i, err, records) ==
  LET key == S.args[i] IN
  IF err # "" THEN [S EXCEPT !.delivered = Append(@, Err(i, err))]
  ELSE IF records = <<>>
    \* this.records[0] is undefined: record.expiresAt throws a TypeError
    THEN [S EXCEPT !.crashed = TRUE]
  ELSE
    LET u == use(Entry(i, unify(records, key[2])), key[3], now)
        S1 == IF u.ok
                THEN [S EXCEPT !.ticks = Append(@, Ok(i, u.val, i)),
                               !.cache[key] = u.entry]
                ELSE [S EXCEPT !.cache[key] = Absent,
                               !.fallback[i] = @ + 1]
    IN runMerged(S1, S.merged[i])

\* ---------------------------------------------------------- _resolveBoth
\* the merge with the IPv6 records first
mergeV6First(all, a, aaaa) ==
  IF ~all /\ options.preferV4 /\ Len(aaaa) # 0 THEN aaaa ELSE aaaa \o a

\* the merge without the IPv4 preference
mergeNoPreference(all, a, aaaa) == a \o aaaa

\* Node.js prefers V4 addresses in default `dns.lookup` implementation
mergeFamilies(all, a, aaaa) ==
  IF ~all /\ options.preferV4 /\ Len(a) # 0 THEN a ELSE a \o aaaa

\* _resolveBoth without wrap: a no-data error of a branch is fatal
parallelNoDataFatal(S, i, f, err, results) ==
  LET r == [set |-> TRUE, recs |-> IF err # "" THEN <<>> ELSE results]
      p == IF f = 4 THEN [S.par[i] EXCEPT !.a = r]
                    ELSE [S.par[i] EXCEPT !.aaaa = r]
      all == S.args[i][3]
  IN IF ~S.par[i].active THEN S
     ELSE IF err # ""
       THEN onresult([S EXCEPT !.par[i] = IdlePar], i, err, <<>>)
     ELSE IF ~(p.a.set /\ p.aaaa.set) THEN [S EXCEPT !.par[i] = p]
     ELSE
       LET S1 == [S EXCEPT !.par[i] = IdlePar]
       IN IF Len(p.a.recs) = 0 /\ Len(p.aaaa.recs) = 0
            THEN onresult(S1, i, "ENORESULTS", <<>>)
          ELSE onresult(S1, i, "", mergeFamilies(all, p.a.recs, p.aaaa.recs))

\* wrap(callback) and the async.parallel bookkeeping for branch f
parallel(S, i, f, err, results) ==
  LET e == IF err = "ENODATA" THEN "" ELSE err
      r == [set |-> TRUE, recs |-> IF err # "" THEN <<>> ELSE results]
      p == IF f = 4 THEN [S.par[i] EXCEPT !.a = r]
                    ELSE [S.par[i] EXCEPT !.aaaa = r]
      all == S.args[i][3]
  IN IF ~S.par[i].active THEN S
     ELSE IF e # ""
       THEN onresult([S EXCEPT !.par[i] = IdlePar], i, e, <<>>)
     ELSE IF ~(p.a.set /\ p.aaaa.set) THEN [S EXCEPT !.par[i] = p]
     ELSE
       LET S1 == [S EXCEPT !.par[i] = IdlePar]
       IN IF Len(p.a.recs) = 0 /\ Len(p.aaaa.recs) = 0
            THEN onresult(S1, i, "ENORESULTS", <<>>)
          ELSE onresult(S1, i, "", mergeFamilies(all, p.a.recs, p.aaaa.recs))

\* The callback handed to _resolve by lookup or by _resolveBoth
resolved(S, i, f, err, results) ==
  IF S.args[i][2] = 0 THEN parallel(S, i, f, err, results)
  ELSE onresult(S, i, err, results)

\* async.retry({ times: retries }, task, callback): the task's callback.
\* The locals of a finished call (timeout, timer) are dropped; the queries
\* of its timed-out attempts stay outstanding.
retry(S, i, f, err, results) ==
  IF err # "" /\ S.res[i][f].attempt < options.retries
    THEN attempt(S, i, f, S.res[i][f].attempt + 1, S.res[i][f].timeout)
  ELSE resolved([S EXCEPT !.res[i][f] =
                     [IdleResolve EXCEPT !.state = "done",
                                         !.armed = S.res[i][f].armed,
                                         !.stale = S.res[i][f].stale]],
                i, f, err, results)

\* The setTimeout callback of one attempt
onTimeout(S, i, f) ==
  retry([S EXCEPT !.res[i][f].timeout = escalate(@),
                  !.res[i][f].armed = @ - 1,
                  !.res[i][f].stale = @ + 1], i, f, "ETIMEOUT", <<>>)

\* onResults without clearTimeout(timer): the timer of the answered attempt
\* stays set
onResultsNoClear(S, i, f, err, results) ==
  retry(S, i, f, err, IF err # "" THEN <<>> ELSE mapResults(results, f))

\* onResults(err, results) of the running attempt: clearTimeout(timer)
onResults(S, i, f, err, results) ==
  retry([S EXCEPT !.res[i][f].armed = @ - 1], i, f, err,
        IF err # "" THEN <<>> ELSE mapResults(results, f))

\* ---------------------------------------------------------------- actions
\* new ReDNS(options): a single attempt per resolve call
OptionSets ==
  [preferV4 : BOOLEAN, retries : {1}, timeout : {1},
   incrementalTimeout : {TRUE}, maxTTL : {DEFAULT_MAX_TTL}]

\* new ReDNS(options): up to MaxRetries attempts per resolve call
RetryOptionSets ==
  [preferV4 : {TRUE}, retries : 1..MaxRetries, timeout : 1..MaxTimeout,
   incrementalTimeout : BOOLEAN, maxTTL : {DEFAULT_MAX_TTL}]

InitWith(optionSets) ==
  /\ zone \in [Branches -> 0..MaxRecs]
  /\ options \in optionSets
  /\ now = 0
  /\ cache = [k \in Keys |-> Absent]
  /\ merged = [i \in Lookups |-> <<>>]
  /\ args = [i \in Lookups |-> NoKey]
  /\ res = [i \in Lookups |-> [f \in Branches |-> IdleResolve]]
  /\ par = [i \in Lookups |-> IdlePar]
  /\ ticks = <<>>
  /\ fallback = [i \in Lookups |-> 0]
  /\ delivered = <<>>
  /\ crashed = FALSE

TimerDue == \E i \in Lookups, f \in Branches :
              res[i][f].state = "running" /\ res[i][f].timer <= now
TimerPending == \E i \in Lookups, f \in Branches : res[i][f].state = "running"

RecordLive == \E k \in Keys : \E p \in 1..Len(cache[k].records) :
                /\ cache[k].records[p].expiresAt > now
                /\ cache[k].records[p].expiresAt < DEFAULT_MAX_TTL

\* The user calls lookup(hostname, { family, all }, callback i).  The calls
\* of one run are made in the order of their callbacks and are for one key:
\* the cache is a Map keyed by the key, so calls for different keys share
\* nothing but the clock.
Lookup(i, key) ==
  /\ ~crashed
  /\ args[i] = NoKey
  /\ \A j \in Lookups : j < i => args[j] = key
  /\ Commit(lookup([Cur EXCEPT !.args[i] = key], i))
  /\ UNCHANGED <<zone, options, now>>

\* The timer of the running attempt fires
Timeout(i, f) ==
  /\ ~crashed
  /\ res[i][f].state = "running"
  /\ res[i][f].timer <= now
  /\ Commit(onTimeout(Cur, i, f))
  /\ UNCHANGED <<zone, options, now>>

\* The resolver answers the running attempt with the host's records
Respond(i, f, ttl) ==
  /\ ~crashed
  /\ res[i][f].state = "running"
  /\ Commit(onResults(Cur, i, f, "", Answer(f, zone[f], ttl)))
  /\ UNCHANGED <<zone, options, now>>

\* The resolver answers the running attempt with an error; ENODATA says that
\* the host has no record of the family
Fail(i, f, err) ==
  /\ ~crashed
  /\ res[i][f].state = "running"
  /\ err = "ENODATA" => zone[f] = 0
  /\ Commit(onResults(Cur, i, f, err, <<>>))
  /\ UNCHANGED <<zone, options, now>>

\* The resolver answers an attempt that timed out: if (done) return
LateAnswer(i, f) ==
  /\ ~crashed
  /\ res[i][f].stale > 0
  /\ res' = [res EXCEPT ![i][f].stale = @ - 1]
  /\ UNCHANGED <<zone, options, now, cache, merged, args, par, ticks, fallback,
                 delivered, crashed>>

\* process.nextTick runs the oldest queued callback
NextTick ==
  /\ ~crashed
  /\ ticks # <<>>
  /\ delivered' = Append(delivered, Head(ticks))
  /\ ticks' = Tail(ticks)
  /\ UNCHANGED <<zone, options, now, cache, merged, args, res, par, fallback,
                 crashed>>

\* dns.lookup answers a delegated call
FallbackAnswer(i) ==
  /\ ~crashed
  /\ fallback[i] > 0
  /\ fallback' = [fallback EXCEPT ![i] = @ - 1]
  /\ delivered' = Append(delivered, Fallback(i))
  /\ UNCHANGED <<zone, options, now, cache, merged, args, res, par, ticks, crashed>>

\* One unit of time passes; a due timer fires before time moves on.  Time is
\* only observed through timers and through the expiry of cached records, so
\* it passes only while one of them is still ahead.
Tick ==
  /\ ~crashed
  /\ ~TimerDue
  /\ TimerPending \/ RecordLive
  /\ now' = now + 1
  /\ UNCHANGED <<zone, options, cache, merged, args, res, par, ticks, fallback,
                 delivered, crashed>>

Next ==
  \/ \E i \in Lookups, key \in Keys : Lookup(i, key)
  \/ \E i \in Lookups, f \in Branches : Timeout(i, f)
  \/ \E i \in Lookups, f \in Branches, ttl \in 0..MaxTTL : Respond(i, f, ttl)
  \/ \E i \in Lookups, f \in Branches, err \in ResolverErrors : Fail(i, f, err)
  \/ \E i \in Lookups, f \in Branches : LateAnswer(i, f)
  \/ NextTick
  \/ \E i \in Lookups : FallbackAnswer(i)
  \/ Tick

Init == InitWith(OptionSets)

Spec == Init /\ [][Next]_vars

\* One lookup call, with retries
NextRetry ==
  \/ \E key \in Keys : Lookup(1, key)
  \/ \E f \in Branches : Timeout(1, f)
  \/ \E f \in Branches, ttl \in 0..MaxTTL : Respond(1, f, ttl)
  \/ \E f \in Branches, err \in ResolverErrors : Fail(1, f, err)
  \/ \E f \in Branches : LateAnswer(1, f)
  \/ NextTick
  \/ FallbackAnswer(1)
  \/ Tick

InitRetry == InitWith(RetryOptionSets)

SpecRetry == InitRetry /\ [][NextRetry]_vars

\* A resolver that never answers
NextSilent ==
  \/ \E i \in Lookups, key \in Keys : Lookup(i, key)
  \/ \E i \in Lookups, f \in Branches : Timeout(i, f)
  \/ \E i \in Lookups : FallbackAnswer(i)
  \/ Tick

SpecSilent == InitRetry /\ [][NextSilent]_vars

\* ------------------------------------------------------------ properties
Range(s) == {s[p] : p \in 1..Len(s)}

\* The callback invocations made or queued, in the order they were scheduled
Results == delivered \o ticks

\* The resolution dispatched by lookup i has not yet called onresult
Outstanding(i) ==
  IF args[i][2] = 0 THEN par[i].active
  ELSE args[i][2] \in Branches /\ res[i][args[i][2]].state = "running"

\* The user's call of lookup i happens in this step
Issued(i) == args[i] = NoKey /\ args'[i] # NoKey

\* The resolution dispatched by lookup i calls onresult in this step
Settles(i) == Outstanding(i) /\ ~Outstanding(i)'

ErrorCodes == ResolverErrors \cup {"ETIMEOUT", "ENORESULTS"}

\* The resolution dispatched by lookup i fails with `code` in this step
FailsWith(i, code) ==
  Outstanding(i) /\ delivered' = Append(delivered, Err(i, code))

\* The results queued with process.nextTick in this step
Scheduled ==
  IF Len(ticks') > Len(ticks)
    THEN {ticks'[p] : p \in (Len(ticks) + 1)..Len(ticks')}
    ELSE {}

\* C1: for every cache key at most one resolution dispatched by lookup is
\* outstanding after every step, and a lookup issued while the key holds an
\* in-flight marker only appends itself to the marker's waiter list.
C1_OneResolutionPerKey ==
  [][/\ \A k \in Keys :
          Cardinality({i \in Lookups : args'[i] = k /\ Outstanding(i)'}) <= 1
     /\ \A i \in Lookups :
          (Issued(i) /\ cache[args'[i]].type = "marker") =>
            /\ merged' = [merged EXCEPT ![cache[args'[i]].ctx] = Append(@, i)]
            /\ cache' = cache /\ res' = res /\ par' = par
            /\ ticks' = ticks /\ fallback' = fallback]_vars

\* C1 witness: a lookup is waiting on the marker of an outstanding resolution
C1_Witness ==
  \E k \in Keys :
    /\ cache[k].type = "marker"
    /\ Outstanding(cache[k].ctx)
    /\ merged[cache[k].ctx] # <<>>

\* Lookup j has a result (records or the error) of the resolution of lookup i
AnsweredFrom(j, i) ==
  \E r \in Range(Results) :
    r.cb = j /\ (r.kind = "err" \/ (r.kind = "ok" /\ r.from = i))

\* C2: when the resolution of lookup i settles with lookup j coalesced onto
\* it, both are answered from that resolution, and j dispatches no resolution
\* of its own.
C2_CoalescedShareOneResolution ==
  [][\A i \in Lookups : (Settles(i) /\ ~crashed') =>
       \A j \in Range(merged[i]) :
         /\ AnsweredFrom(i, i)'
         /\ AnsweredFrom(j, i)'
         /\ \A f \in Branches : res'[j][f].state = "idle"]_vars

\* The results served from the Entry built by lookup e, in order
ServedFrom(e) ==
  LET Test(r) == r.kind = "ok" /\ r.from = e
  IN SelectSeq(Results, Test)

AllUnexpired(entry) ==
  \A p \in 1..Len(entry.records) : entry.records[p].expiresAt > now

\* C3: while all N records of a single-mode Entry are unexpired, any N
\* consecutive lookups served from it returned pairwise different records.
C3_RoundRobin ==
  \A k \in Keys :
    (cache[k].type = "entry" /\ ~k[3] /\ AllUnexpired(cache[k])) =>
      LET served == ServedFrom(cache[k].ctx)
          N == Len(cache[k].records)
      IN \A p, q \in 1..Len(served) :
           (p < q /\ q - p < N) => served[p].val # served[q].val

\* C3 witness: an Entry of two or more unexpired records has served three
\* lookups
C3_Witness ==
  \E k \in Keys :
    /\ cache[k].type = "entry" /\ ~k[3] /\ AllUnexpired(cache[k])
    /\ Len(cache[k].records) >= 2
    /\ Len(ServedFrom(cache[k].ctx)) >= 3

\* Every record handed out in result r is an unexpired record of the Entry
\* at the key of r's lookup
Fresh(r) ==
  LET entry == cache'[args'[r.cb]]
  IN /\ entry.type = "entry"
     /\ r.val # <<>>
     /\ \A q \in 1..Len(r.val) :
          \E p \in 1..Len(entry.records) :
            /\ entry.records[p].address = r.val[q].address
            /\ entry.records[p].expiresAt > now

\* C4: every result scheduled from an Entry consists of records that expire
\* later than the time of the call, and a lookup that finds only expired
\* records in its key's Entry replaces the Entry by its own in-flight marker
\* and dispatches a resolution in the same call.
C4_NoStaleAnswer ==
  [][/\ \A r \in Scheduled : Fresh(r)
     /\ \A i \in Lookups :
          (/\ Issued(i)
           /\ cache[args'[i]].type = "entry"
           /\ \A p \in 1..Len(cache[args'[i]].records) :
                cache[args'[i]].records[p].expiresAt <= now) =>
            /\ cache'[args'[i]] = Marker(i)
            /\ Outstanding(i)'
            /\ ticks' = ticks]_vars

\* C4 witness: the key of an earlier cached answer holds the marker of a
\* later lookup, whose resolution is outstanding (the Entry had expired)
C4_Witness ==
  \E i \in Lookups :
    /\ args[i] # NoKey
    /\ cache[args[i]] = Marker(i)
    /\ Outstanding(i)
    /\ \E r \in Range(Results) : r.kind = "ok" /\ args[r.cb] = args[i]

\* C5: with preferV4, when the host has IPv4 and IPv6 records, every result
\* of a lookup with family 0 and all=false is an IPv4 address with family 4.
C5_PreferV4 ==
  (options.preferV4 /\ zone[4] > 0 /\ zone[6] > 0) =>
    \A r \in Range(Results) :
      (r.kind = "ok" /\ args[r.cb][2] = 0 /\ ~args[r.cb][3]) =>
        \A q \in 1..Len(r.val) :
          /\ r.val[q].family = 4
          /\ r.val[q].address \in {Address(4, p) : p \in 1..zone[4]}

\* C5 witness: such a lookup was answered from an Entry built by another
\* lookup (a cache hit or a coalesced waiter)
C5_Witness ==
  /\ options.preferV4 /\ zone[4] > 0 /\ zone[6] > 0
  /\ \E r \in Range(Results) :
       r.kind = "ok" /\ args[r.cb][2] = 0 /\ ~args[r.cb][3] /\ r.from # r.cb

\* C6: in every result of a lookup with family 0 and all=true no family-6
\* record precedes a family-4 record.
C6_V4BeforeV6 ==
  \A r \in Range(Results) :
    (r.kind = "ok" /\ args[r.cb][2] = 0 /\ args[r.cb][3]) =>
      \A p, q \in 1..Len(r.val) :
        p < q => ~(r.val[p].family = 6 /\ r.val[q].family = 4)

\* C6 witness: a cache hit in all mode returned records of both families
C6_Witness ==
  \E r \in Range(Results) :
    /\ r.kind = "ok" /\ args[r.cb][2] = 0 /\ args[r.cb][3] /\ r.from # r.cb
    /\ \E p, q \in 1..Len(r.val) : r.val[p].family = 4 /\ r.val[q].family = 6

\* C7: when the resolution dispatched for a key fails, the key is absent
\* from the cache afterwards.
C7_FailureDeletesKey ==
  [][\A i \in Lookups, code \in ErrorCodes :
       FailsWith(i, code) => cache'[args[i]] = Absent]_vars

\* C8: when the resolution of lookup i fails, every lookup coalesced onto
\* its marker receives the error too.
C8_WaitersGetError ==
  [][\A i \in Lookups, code \in ErrorCodes :
       FailsWith(i, code) =>
         \A j \in Range(merged[i]) :
           Err(j, code) \in Range(delivered' \o ticks')]_vars

\* C9: with incrementalTimeout and a resolver that never answers, attempt k
\* of a resolve call runs with timeout * 2^(k-1), its timer is due
\* timeout * (2^k - 1) after the call began, and the call ends at the last of
\* options.retries attempts; a single-family lookup then fails with the
\* timeout error.
C9_EscalatingTimeouts ==
  [][options.incrementalTimeout =>
       \A i \in Lookups, f \in Branches :
         /\ res'[i][f].state = "running" =>
              /\ res'[i][f].attempt \in 1..options.retries
              /\ res'[i][f].timeout =
                   options.timeout * Pow2(res'[i][f].attempt - 1)
              /\ res'[i][f].timer = res'[i][f].began
                   + options.timeout * (Pow2(res'[i][f].attempt) - 1)
         /\ (res[i][f].state = "running" /\ res'[i][f].state = "done") =>
              /\ res[i][f].attempt = options.retries
              /\ now = res[i][f].began
                   + options.timeout * (Pow2(options.retries) - 1)
              /\ args[i][2] = f =>
                   delivered' = Append(delivered, Err(i, "ETIMEOUT"))]_vars

\* C9 witness: a single-family lookup failed with the timeout error after
\* two or more attempts
C9_Witness ==
  /\ options.incrementalTimeout /\ options.retries >= 2
  /\ now = options.timeout * (Pow2(options.retries) - 1)
  /\ \E i \in Lookups :
       args[i][2] \in Branches /\ Err(i, "ETIMEOUT") \in Range(delivered)

\* Nothing is left to run: no timer, no queued callback, no fallback call
Quiescent ==
  /\ ~crashed
  /\ ~TimerPending
  /\ ticks = <<>>
  /\ \A i \in Lookups : fallback[i] = 0

\* C10: every issued lookup has had its callback invoked once nothing is
\* left to run.
C10_EveryLookupAnswered ==
  Quiescent =>
    \A i \in Lookups :
      args[i] # NoKey => \E r \in Range(delivered) : r.cb = i

\* The records handed to onresult when the resolver answers branch f of
\* lookup i with TTL ttl and this settles the resolution of lookup i
Resolved(i, f, ttl) ==
  LET mine == mapResults(Answer(f, zone[f], ttl), f)
  IN IF args[i][2] # 0 THEN mine
     ELSE mergeFamilies(args[i][3],
                        IF f = 4 THEN mine ELSE par[i].a.recs,
                        IF f = 6 THEN mine ELSE par[i].aaaa.recs)

\* The resolution of lookup i succeeds in this step with one record or more,
\* none of which is usable at this moment
SettlesUnusable(i) ==
  \E f \in Branches, ttl \in 0..MaxTTL :
    /\ Settles(i)
    /\ res[i][f].state = "running"
    /\ Respond(i, f, ttl)
    /\ Resolved(i, f, ttl) # <<>>
    /\ \A r \in Range(unify(Resolved(i, f, ttl), args[i][2])) :
         r.expiresAt <= now

C12_UnsupportedBypassesCache ==
  [][\A i \in Lookups :
       (Issued(i) /\ args'[i][2] \notin {0, 4, 6}) =>
         /\ fallback' = [fallback EXCEPT ![i] = @ + 1]
         /\ cache' = cache]_vars

\* The resolve call of branch f of lookup i starts its next attempt in this
\* step
Retries(i, f) ==
  /\ res[i][f].state = "running"
  /\ res'[i][f].state = "running"
  /\ res'[i][f].attempt = res[i][f].attempt + 1

\* C13: with incrementalTimeout every attempt after the first of a resolve
\* call runs with twice the timeout of the attempt before it, whether that
\* attempt ended by its timer or by an error of the resolver.
C13_DoubledOnEveryRetry ==
  [][options.incrementalTimeout =>
       \A i \in Lookups, f \in Branches :
         Retries(i, f) =>
           /\ res'[i][f].timeout = 2 * res[i][f].timeout
           /\ res'[i][f].timer = now + res'[i][f].timeout]_vars

\* The callback invocations made in this step
Invoked ==
  IF Len(delivered') > Len(delivered)
    THEN {delivered'[p] : p \in (Len(delivered) + 1)..Len(delivered')}
    ELSE {}

\* C14: a lookup call returns without any callback having been invoked; a
\* result of Entry.use is queued in the step of the use call, with the Entry
\* stored at the key when that step ends, and its callback is invoked in a
\* later step of its own, which leaves the cache alone.
C14_DeliveredLater ==
  [][/\ \A i \in Lookups : Issued(i) => delivered' = delivered
     /\ \A r \in Scheduled :
          /\ r.kind = "ok"
          /\ r \notin Invoked
          /\ cache'[args'[r.cb]].type = "entry"
          /\ cache'[args'[r.cb]].ctx = r.from
     /\ \A r \in Invoked :
          r.kind = "ok" =>
            /\ ticks # <<>> /\ r = Head(ticks) /\ ticks' = Tail(ticks)
            /\ cache' = cache]_vars

\* C14 witness: the result of a successful resolution has been delivered and
\* a result served to another lookup from its Entry is queued, not yet
\* delivered
C14_Witness ==
  /\ \E r \in Range(delivered) : r.kind = "ok" /\ r.from = r.cb
  /\ \E r \in Range(ticks) :
       /\ r.kind = "ok" /\ r.from # r.cb
       /\ r \notin Range(delivered)
       /\ cache[args[r.cb]].type = "entry"

\* Branch f of lookup i ends in this step: with error err, or (err = "")
\* with the host's records of family f and TTL ttl
BranchEnds(i, f, err, ttl) ==
  /\ res[i][f].state = "running" /\ res'[i][f].state = "done"
  /\ IF err = "" THEN Respond(i, f, ttl)
     ELSE IF err = "ETIMEOUT" THEN Timeout(i, f)
     ELSE err \in ResolverErrors /\ Fail(i, f, err)

\* Nothing is reported to a lookup in this step
Unreported ==
  /\ delivered' = delivered /\ ticks' = ticks
  /\ fallback' = fallback /\ cache' = cache /\ merged' = merged

\* The orchestration of lookup i reports the error code in this step
ReportsError(i, code) ==
  /\ ~par'[i].active
  /\ delivered' = Append(delivered, Err(i, code))
  /\ ticks' = ticks /\ fallback' = fallback

\* The orchestration of lookup i reports the records recs in this step: they
\* become the Entry of the key, or the call falls back if none is usable
ReportsRecords(i, recs) ==
  /\ ~par'[i].active
  /\ delivered' = delivered
  /\ IF \A r \in Range(unify(recs, 0)) : r.expiresAt <= now
       THEN fallback'[i] = fallback[i] + 1
       ELSE /\ cache'[args[i]].type = "entry"
            /\ cache'[args[i]].ctx = i
            /\ cache'[args[i]].records = unify(recs, 0)
            /\ fallback' = fallback

\* C15: the dual-stack orchestration of lookup i reports a failure when a
\* branch ends with an error other than ENODATA (with that error) and when
\* both branches have ended with no record (ENODATA counting as none);
\* when both have ended otherwise it reports the IPv4 records alone (not
\* all, preferV4, an IPv4 record exists) or the IPv4 records followed by the
\* IPv6 records; it reports nothing while a branch is still to end and
\* nothing more once it has reported.
C15_DualStackOutcome ==
  [][\A i \in Lookups, f \in Branches :
       (/\ args[i] # NoKey /\ args[i][2] = 0
        /\ res[i][f].state = "running" /\ res'[i][f].state = "done") =>
         \A err \in ErrorCodes \cup {""}, ttl \in 0..MaxTTL :
           BranchEnds(i, f, err, ttl) =>
           LET other == IF f = 4 THEN par[i].aaaa ELSE par[i].a
               mine == IF err = "" THEN mapResults(Answer(f, zone[f], ttl), f)
                       ELSE <<>>
               a == IF f = 4 THEN mine ELSE other.recs
               aaaa == IF f = 6 THEN mine ELSE other.recs
           IN IF ~par[i].active THEN Unreported
              ELSE IF err \notin {"", "ENODATA"} THEN ReportsError(i, err)
              ELSE IF ~other.set THEN par'[i].active /\ Unreported
              ELSE IF Len(a) = 0 /\ Len(aaaa) = 0
                THEN ReportsError(i, "ENORESULTS")
              ELSE IF ~args[i][3] /\ options.preferV4 /\ Len(a) >= 1
                THEN ReportsRecords(i, a)
              ELSE ReportsRecords(i, a \o aaaa)]_vars

\* C15 witness: an orchestration failed with the error of one branch, the
\* other branch has ended since, and its lookup has that one outcome
C15_Witness ==
  \E i \in Lookups :
    /\ args[i] # NoKey /\ args[i][2] = 0
    /\ res[i][4].state = "done" /\ res[i][6].state = "done"
    /\ ~par[i].active
    /\ Err(i, "ESERVFAIL") \in Range(delivered)
    /\ Cardinality({p \in 1..Len(Results) : Results[p].cb = i}) = 1
    /\ fallback[i] = 0

\* C16: an attempt has one timer set while it runs and none afterwards.  When
\* its timer fires the attempt fails with the timeout error (a retry, or the
\* end of the resolve call with that error), and the answer that arrives
\* later is discarded: it changes nothing of the resolve call and reports
\* nothing.  When the answer arrives first the timer is cleared: no timeout
\* is reported and the timeout value stays as it is.
C16_AttemptSettlesOnce ==
  [][\A i \in Lookups, f \in Branches :
       /\ res'[i][f].armed = IF res'[i][f].state = "running" THEN 1 ELSE 0
       /\ Timeout(i, f) =>
            /\ res'[i][f].stale = res[i][f].stale + 1
            /\ IF res[i][f].attempt < options.retries
                 THEN Retries(i, f) /\ Unreported
                 ELSE /\ res'[i][f].state = "done"
                      /\ args[i][2] = f =>
                           delivered' = Append(delivered, Err(i, "ETIMEOUT"))
       /\ LateAnswer(i, f) =>
            /\ res' = [res EXCEPT ![i][f].stale = @ - 1]
            /\ Unreported /\ par' = par
       /\ ((\E ttl \in 0..MaxTTL : Respond(i, f, ttl))
             \/ (\E err \in ResolverErrors : Fail(i, f, err))) =>
            /\ res'[i][f].stale = res[i][f].stale
            /\ res'[i][f].state = "running" =>
                 res'[i][f].timeout = res[i][f].timeout
            /\ \A r \in Invoked : r.err # "ETIMEOUT"]_vars

\* C16 witness: the first attempt of a resolve call timed out and its answer
\* is still to come, the second was answered in time and the lookup has its
\* records
C16_Witness ==
  \E i \in Lookups, f \in Branches :
    /\ res[i][f].state = "done"
    /\ res[i][f].stale = 1 /\ res[i][f].armed = 0
    /\ args[i][2] = f
    /\ \E r \in Range(Results) : r.cb = i /\ r.kind = "ok"

\* The resolution of lookup i succeeds in this step and its Entry is stored
SettlesUsable(i) ==
  /\ Settles(i)
  /\ cache'[args[i]].type = "entry"
  /\ cache'[args[i]].ctx = i

\* What a single-mode callback receives for record p (0-based) of an Entry
Pick(records, p) ==
  <<[address |-> records[p + 1].address, family |-> records[p + 1].family]>>

\* In this step lookup i and then its waiters, in the order they registered,
\* are answered from the Entry of N records stored by lookup i, and no waiter
\* starts a resolution or a fallback or waits again; in single mode lookup i
\* is given record 0 and its w-th waiter record w mod N
ReleasedInRotation(i) ==
  LET key == args[i]
      E == cache'[key].records
      N == Len(E)
      W == merged[i]
  IN /\ \A j \in Range(W) : res'[j] = res[j] /\ par'[j] = par[j]
     /\ fallback' = fallback /\ merged' = merged
     /\ Len(ticks') = Len(ticks) + 1 + Len(W)
     /\ \A w \in 0..Len(W) :
          LET r == ticks'[Len(ticks) + 1 + w]
          IN /\ r.cb = IF w = 0 THEN i ELSE W[w]
             /\ r.kind = "ok" /\ r.from = i
             /\ ~key[3] => r.val = Pick(E, w % N)
     /\ (~key[3] /\ N >= 2 /\ Len(W) >= 1) =>
          ticks'[Len(ticks) + 1].val # ticks'[Len(ticks) + 2].val

\* C17 as stated: when the resolution of lookup i settles with a usable Entry
\* of N records, lookup i and its waiters are answered from that Entry in
\* rotation, record 0 for lookup i and record w mod N for the w-th waiter.
C17_WaitersFollowRotation ==
  [][\A i \in Lookups : SettlesUsable(i) => ReleasedInRotation(i)]_vars

\* C17 amended: when the resolution of lookup i settles with an Entry whose
\* N records are all usable, lookup i and its waiters are answered from that
\* Entry in rotation, record 0 for lookup i and record w mod N for the w-th
\* waiter.
C17_FreshWaitersFollowRotation ==
  [][\A i \in Lookups :
       (SettlesUsable(i) /\ AllUnexpired(cache'[args[i]])) =>
         ReleasedInRotation(i)]_vars

\* C17 witness: two waiters were released onto a single-mode Entry of two or
\* more usable records and the first of them has an address other than the
\* one given to the lookup that resolved
C17_Witness ==
  \E i \in Lookups :
    /\ args[i] # NoKey /\ ~args[i][3]
    /\ cache[args[i]].type = "entry" /\ cache[args[i]].ctx = i
    /\ Len(cache[args[i]].records) >= 2 /\ AllUnexpired(cache[args[i]])
    /\ Len(merged[i]) = 2
    /\ \E p, q \in 1..Len(Results) :
         /\ Results[p].cb = i /\ Results[q].cb = merged[i][1]
         /\ Results[p].from = i /\ Results[q].from = i
         /\ Results[p].val # Results[q].val

\* The number of records one use call examines: the passes of its do/while
\* loop, started with the cursor at start
RECURSIVE Examined(_, _, _, _, _)
Examined(records, index, start, all, t) ==
  LET next == (index + 1) % Len(records)
  IN IF (unexpired(records[index + 1], t) /\ ~all) \/ next = start THEN 1
     ELSE 1 + Examined(records, next, start, all, t)

\* C18: whatever record list a successful resolution returned, the empty
\* list included, the use call on the Entry built from it completes; the
\* cursor of every Entry is an index in [0, len) after every step, and a use
\* call on it examines no more records than it has.
C18_CursorInRange ==
  [][/\ \A i \in Lookups, f \in Branches, ttl \in 0..MaxTTL :
          (res[i][f].state = "running" /\ Respond(i, f, ttl)) => ~crashed'
     /\ \A k \in Keys :
          cache'[k].type = "entry" =>
            LET E == cache'[k]
            IN /\ E.index \in 0..(Len(E.records) - 1)
               /\ \A all \in BOOLEAN :
                    Examined(E.records, IF all THEN 0 ELSE E.index,
                             IF all THEN 0 ELSE E.index, all, now)
                      <= Len(E.records)]_vars

\* The cursor of the Entry at key k before the use calls of this step (0 for
\* the Entry that this step constructs)
CursorBefore(k) == IF cache[k].type = "entry" THEN cache[k].index ELSE 0

\* The use calls of this step that returned a record (each queues a result)
UseCalls == Len(ticks') - Len(ticks)

\* C19 as stated: every single-mode use call that returns a record advances
\* the cursor of its Entry by exactly one position modulo the record count.
C19_AdvancesByOne ==
  [][\A k \in Keys :
       (~k[3] /\ cache'[k].type = "entry" /\ UseCalls > 0) =>
         cache'[k].index =
           (CursorBefore(k) + UseCalls) % Len(cache'[k].records)]_vars

\* C19 amended: a single-mode use call that returns a record leaves the
\* cursor one position (modulo the record count) past the record it returns,
\* which is the first unexpired record at or after the cursor: it advances
\* the cursor by one for every record it examined, by exactly one when the
\* record at the cursor is unexpired.
C19_AdvancesPastReturned ==
  [][\A k \in Keys :
       (~k[3] /\ cache'[k].type = "entry" /\ UseCalls > 0) =>
         LET E == cache'[k]
             N == Len(E.records)
             r == ticks'[Len(ticks')]
             at == (E.index + N - 1) % N
             skipped == (at + N - CursorBefore(k)) % N
         IN /\ r.val = Pick(E.records, at)
            /\ unexpired(E.records[at + 1], now)
            /\ UseCalls = 1 =>
                 /\ \A d \in 0..(N - 1) :
                      d < skipped =>
                        ~unexpired(E.records[((CursorBefore(k) + d) % N) + 1],
                                   now)
                 /\ E.index = (CursorBefore(k) + skipped + 1) % N
                 /\ unexpired(E.records[CursorBefore(k) + 1], now) =>
                      E.index = (CursorBefore(k) + 1) % N]_vars

\* C19 witness: a single-mode Entry whose first record was expired when it
\* was built has served a later record, and the cursor stands one past it
C19_Witness ==
  \E k \in Keys :
    /\ ~k[3] /\ cache[k].type = "entry"
    /\ Len(cache[k].records) >= 2
    /\ ~unexpired(cache[k].records[1], now)
    /\ unexpired(cache[k].records[2], now)
    /\ cache[k].index = 2 % Len(cache[k].records)
    /\ Len(ServedFrom(cache[k].ctx)) >= 1

\* How often the callback of lookup i has been invoked or is bound to be: its
\* invocations made and queued and its outstanding fallback calls
Invocations(i) ==
  Cardinality({p \in 1..Len(Results) : Results[p].cb = i}) + fallback[i]

\* C20: the callback of every lookup is invoked at most once, counting the
\* invocations already queued and the fallback calls that hold it; a lookup
\* waiting on a marker is on its waiter list once and has not been invoked.
C20_AtMostOnce ==
  /\ \A i \in Lookups : Invocations(i) <= 1
  /\ \A k \in Keys :
       cache[k].type = "marker" =>
         LET W == merged[cache[k].ctx]
         IN /\ \A p, q \in 1..Len(W) : p # q => W[p] # W[q]
            /\ \A j \in Range(W) : Invocations(j) = 0

\* C20 witness: a lookup was answered by the fallback after its resolution
\* gave nothing usable, and its waiter, re-executed, by a resolution of its
\* own; each callback has been invoked once
C20_Witness ==
  \E i, j \in Lookups :
    /\ j \in Range(merged[i])
    /\ Fallback(i) \in Range(delivered)
    /\ \E r \in Range(delivered) : r.cb = j /\ r.kind = "ok" /\ r.from = j
    /\ Invocations(i) = 1 /\ Invocations(j) = 1

====
